---- MODULE Spec2Model ----
(***************************************************************************)
(* Model of scripts/metabase_setup.py: one run of main() driving the       *)
(* MetabaseSetup REST client.  Every HTTP exchange is a step whose         *)
(* response is chosen by the environment (transport exception, non-200     *)
(* status, 200 with one of the JSON bodies the code distinguishes).        *)
(* Optional values (Optional[str], Optional[int], the exit status of a     *)
(* process that is still running) are sequences of length 0 or 1:          *)
(* << >> is Python's None, <<v>> is the value v.                           *)
(***************************************************************************)
EXTENDS Integers, Sequences, FiniteSets, TLC

\* wait_for_metabase(timeout=300, interval=5)
Timeout == 300
Interval == 5

\* Extra seconds an iteration of the polling loop may take beyond the sleep
\* (the health request itself has timeout=5).
MaxDelay == 1
\* Largest number of tables a metadata response lists.
MaxTables == 1
\* Largest database id a registration response carries.
MaxDbId == 1

\* The four lists of the battery, lines 354-380, 404-427, 453-459, 492.
NumBounded == 12
NumDdl == 5
NumCatalog == 5
NumStreaming == 1
NumStatements == NumBounded + NumDdl + NumCatalog + NumStreaming

None == << >>
Some(v) == <<v>>

Endpoints ==
    {"health", "properties", "setup", "session", "database", "sync",
     "metadata", "dataset", "card"}

\* Endpoints called with headers=self._headers().
Authenticated == {"database", "sync", "metadata", "dataset", "card"}

\* Position of each endpoint in the linear flow of main.
Stage(e) ==
    CASE e = "health" -> 1
      [] e = "properties" -> 2
      [] e = "setup" -> 3
      [] e = "session" -> 3
      [] e = "database" -> 4
      [] e = "sync" -> 5
      [] e = "metadata" -> 6
      [] e = "dataset" -> 7
      [] e = "card" -> 8

VARIABLES
    pc,             \* position of main
    skipWait,       \* args.skip_wait
    elapsed,        \* time.time() - start_time inside wait_for_metabase
    setupToken,     \* setup_token of setup_admin_user, None before the call
    sessionToken,   \* self.session_token
    dbId,           \* db_id of main
    tables,         \* len(tables) of main
    allPassed,      \* all_passed of main
    ddlPassed,      \* ddl_passed of main
    exitCode,       \* exit status of the process, None while it runs
    uncaught,       \* the run ended with an exception nobody caught
    summaryPrinted, \* the SETUP SUMMARY block has been printed
    sent,           \* history: number of requests issued per endpoint
    issued,         \* history: battery statements issued, in order
    headers,        \* history: X-Metabase-Session values sent
    tokenWrites,    \* history: assignments to self.session_token
    authWrote,      \* history: the value assigned at authentication
    authReturn,     \* history: what setup_admin_user returned
    authResp,       \* history: the response to POST /api/setup or /api/session
    waitReturn,     \* history: what wait_for_metabase returned
    lastPoll,       \* history: the response to the latest health poll
    regResp,        \* history: the response to POST /api/database
    syncReturn,     \* history: what sync_database returned
    notCompleted    \* history: groups with a statement that did not complete

vars ==
    <<pc, skipWait, elapsed, setupToken, sessionToken, dbId, tables, allPassed,
      ddlPassed, exitCode, uncaught, summaryPrinted, sent, issued, headers,
      tokenWrites, authWrote, authReturn, authResp, waitReturn, lastPoll,
      regResp, syncReturn, notCompleted>>

mainVars == <<skipWait, dbId, tables, allPassed, ddlPassed, summaryPrinted>>
waitVars == <<elapsed, waitReturn, lastPoll>>
authVars == <<setupToken, sessionToken, tokenWrites, authWrote, authReturn, authResp>>
histVars == <<issued, regResp, syncReturn, notCompleted>>

----------------------------------------------------------------------------
\* Responses of the remote service.

Exception == [kind |-> "exception"]
NonSuccess == [kind |-> "http", code |-> 500]

HealthResponses ==
    {Exception, NonSuccess}
    \cup {[kind |-> "http", code |-> 200, status |-> s] : s \in {"ok", "starting"}}

\* The setup-token of /api/session/properties: absent, empty or present.
\* check_setup_status does not look at the status code.
PropertiesResponses ==
    {Exception}
    \cup {[kind |-> "http", code |-> c, token |-> t] :
            c \in {200, 500}, t \in {None, Some(""), Some("setup-token-1")}}

\* The id of a 200 setup/login body may be missing.
AuthResponses ==
    {Exception, NonSuccess}
    \cup {[kind |-> "http", code |-> 200, id |-> i] :
            i \in {None, Some("session-1")}}

DatabaseResponses ==
    {Exception, NonSuccess}
    \cup {[kind |-> "http", code |-> 200, id |-> None]}
    \cup {[kind |-> "http", code |-> 200, id |-> Some(i)] : i \in 0..MaxDbId}

SyncResponses == {Exception, NonSuccess, [kind |-> "http", code |-> 200]}

MetadataResponses ==
    {Exception, NonSuccess}
    \cup {[kind |-> "http", code |-> 200, tables |-> n] : n \in 0..MaxTables}

\* /api/dataset answers with a JSON object whatever its status code.
DatasetResponses ==
    {Exception}
    \cup {[kind |-> "http", code |-> 202, status |-> s] : s \in {"completed", "failed"}}

IsOk(resp) == resp.kind = "http" /\ resp.code = 200

----------------------------------------------------------------------------
\* Helpers shared by the steps.

Request(e) == sent' = [sent EXCEPT ![e] = @ + 1]

\* _headers()
Headers == sessionToken

AuthRequest(e) == Request(e) /\ headers' = headers \cup {Headers}

\* sys.exit(code)
Exit(code) == pc' = "exited" /\ exitCode' = Some(code)

\* An exception that reaches the top of main: traceback, status 1.
Crash == pc' = "exited" /\ exitCode' = Some(1) /\ uncaught' = TRUE

\* Python truthiness of an Optional[str] and of an Optional[int]
TruthyStr(opt) == opt # None /\ opt[1] # ""
TruthyInt(opt) == opt # None /\ opt[1] # 0

----------------------------------------------------------------------------
Init ==
    /\ skipWait \in BOOLEAN
    /\ pc = IF skipWait THEN "auth" ELSE "wait"
    /\ elapsed = 0
    /\ setupToken = None
    /\ sessionToken = None
    /\ dbId = None
    /\ tables = 0
    /\ allPassed = TRUE
    /\ ddlPassed = TRUE
    /\ exitCode = None
    /\ uncaught = FALSE
    /\ summaryPrinted = FALSE
    /\ sent = [e \in Endpoints |-> 0]
    /\ issued = << >>
    /\ headers = {}
    /\ tokenWrites = 0
    /\ authWrote = None
    /\ authReturn = None
    /\ authResp = None
    /\ waitReturn = None
    /\ lastPoll = None
    /\ regResp = None
    /\ syncReturn = None
    /\ notCompleted = {}

----------------------------------------------------------------------------
\* wait_for_metabase, lines 28-48, and main's use of it, lines 309-311.

\* Variant: the loop runs once more when the timeout is reached exactly.
WaitLoopGuardInclusive(t) == t <= Timeout

\* while time.time() - start_time < timeout
WaitLoopGuard(t) == t < Timeout

\* status_code == 200 and data.get("status") == "ok"
Healthy(resp) == IsOk(resp) /\ resp.status = "ok"

\* One iteration of the loop: the poll, then either return True or sleep.
\* The iteration moves the clock by d >= interval seconds.
HealthPoll(resp, d) ==
    /\ pc = "wait"
    /\ WaitLoopGuard(elapsed)
    /\ Request("health")
    /\ lastPoll' = Some(resp)
    /\ IF Healthy(resp)
       THEN /\ waitReturn' = Some(TRUE)
            /\ elapsed' = 0
            /\ pc' = "auth"
       ELSE /\ waitReturn' = waitReturn
            /\ elapsed' = elapsed + d
            /\ pc' = "wait"
    /\ UNCHANGED <<mainVars, authVars, histVars, exitCode, uncaught, headers>>

\* The loop condition fails: return False, and main exits with status 1.
WaitTimeout ==
    /\ pc = "wait"
    /\ ~WaitLoopGuard(elapsed)
    /\ waitReturn' = Some(FALSE)
    /\ Exit(1)
    /\ UNCHANGED <<mainVars, authVars, histVars, elapsed, lastPoll, uncaught,
                   sent, headers>>

----------------------------------------------------------------------------
\* setup_admin_user, lines 55-104, login, lines 106-126, and main's use of
\* them, lines 314-318.

\* check_setup_status, lines 50-53: no try block and no status check.  An
\* exception of the request leaves setup_admin_user and main uncaught.
\* Otherwise "if not setup_token" picks the login or the setup path.
CheckSetupStatus(props) ==
    /\ pc = "auth"
    /\ Request("properties")
    /\ IF props.kind = "exception"
       THEN /\ Crash
            /\ UNCHANGED setupToken
       ELSE /\ setupToken' = Some(props.token)
            /\ pc' = IF TruthyStr(props.token) THEN "setup" ELSE "login"
            /\ UNCHANGED <<exitCode, uncaught>>
    /\ UNCHANGED <<mainVars, waitVars, histVars, headers, sessionToken,
                   tokenWrites, authWrote, authReturn, authResp>>

\* The shared tail of both paths, lines 94-104 and 116-126: a 200 response
\* stores data.get("id") and returns True, anything else returns False and
\* main exits with status 1.
Authenticate(resp) ==
    /\ authResp' = Some(resp)
    /\ UNCHANGED setupToken
    /\ IF IsOk(resp)
       THEN /\ sessionToken' = resp.id
            /\ tokenWrites' = tokenWrites + 1
            /\ authWrote' = Some(resp.id)
            /\ authReturn' = Some(TRUE)
            /\ pc' = "register"
            /\ UNCHANGED exitCode
       ELSE /\ authReturn' = Some(FALSE)
            /\ Exit(1)
            /\ UNCHANGED <<sessionToken, tokenWrites, authWrote>>

\* POST /api/setup, lines 90-104
CompleteSetup(resp) ==
    /\ pc = "setup"
    /\ Request("setup")
    /\ Authenticate(resp)
    /\ UNCHANGED <<mainVars, waitVars, histVars, uncaught, headers>>

\* POST /api/session, lines 110-126
Login(resp) ==
    /\ pc = "login"
    /\ Request("session")
    /\ Authenticate(resp)
    /\ UNCHANGED <<mainVars, waitVars, histVars, uncaught, headers>>

----------------------------------------------------------------------------
\* add_flink_database, lines 132-173, and main's use of it, lines 321-327.

\* What add_flink_database returns for a response.
AddFlinkDatabaseResult(resp) == IF IsOk(resp) THEN resp.id ELSE None

\* Variant: "if db_id is None", which lets the id 0 through.
RegistrationAcceptedNotNone(id) == id # None

\* "if not db_id: sys.exit(1)"
RegistrationAccepted(id) == TruthyInt(id)

\* Variant: a 200 response also resets self.session_token.
AddFlinkDatabaseResetsToken(resp) ==
    /\ pc = "register"
    /\ AuthRequest("database")
    /\ regResp' = Some(resp)
    /\ dbId' = AddFlinkDatabaseResult(resp)
    /\ sessionToken' = IF IsOk(resp) THEN None ELSE sessionToken
    /\ IF RegistrationAccepted(dbId')
       THEN pc' = "sync" /\ UNCHANGED exitCode
       ELSE Exit(1)
    /\ UNCHANGED <<skipWait, tables, allPassed, ddlPassed, summaryPrinted,
                   waitVars, setupToken, tokenWrites, authWrote, authReturn,
                   authResp, issued, syncReturn, notCompleted, uncaught>>

AddFlinkDatabase(resp) ==
    /\ pc = "register"
    /\ AuthRequest("database")
    /\ regResp' = Some(resp)
    /\ dbId' = AddFlinkDatabaseResult(resp)
    /\ IF RegistrationAccepted(dbId')
       THEN pc' = "sync" /\ UNCHANGED exitCode
       ELSE Exit(1)
    /\ UNCHANGED <<skipWait, tables, allPassed, ddlPassed, summaryPrinted,
                   waitVars, authVars, issued, syncReturn, notCompleted,
                   uncaught>>

----------------------------------------------------------------------------
\* sync_database, lines 175-193, and main's use of it, line 334: the
\* returned boolean is dropped.

SyncDatabaseResult(resp) == IsOk(resp)

\* Variant: main repeats the sync until it succeeds.
SyncDatabaseRetried(resp) ==
    /\ pc = "sync"
    /\ AuthRequest("sync")
    /\ syncReturn' = Some(SyncDatabaseResult(resp))
    /\ pc' = IF SyncDatabaseResult(resp) THEN "metadata" ELSE "sync"
    /\ UNCHANGED <<mainVars, waitVars, authVars, issued, regResp,
                   notCompleted, exitCode, uncaught>>

\* Variant: main checks the result and exits when the sync failed.
SyncDatabaseChecked(resp) ==
    /\ pc = "sync"
    /\ AuthRequest("sync")
    /\ syncReturn' = Some(SyncDatabaseResult(resp))
    /\ IF SyncDatabaseResult(resp)
       THEN pc' = "metadata" /\ UNCHANGED exitCode
       ELSE Exit(1)
    /\ UNCHANGED <<mainVars, waitVars, authVars, issued, regResp,
                   notCompleted, uncaught>>

SyncDatabase(resp) ==
    /\ pc = "sync"
    /\ AuthRequest("sync")
    /\ syncReturn' = Some(SyncDatabaseResult(resp))
    /\ pc' = "metadata"
    /\ UNCHANGED <<mainVars, waitVars, authVars, issued, regResp,
                   notCompleted, exitCode, uncaught>>

----------------------------------------------------------------------------
\* list_tables, lines 195-210, and main's use of it, lines 340-348, 382.

\* len(list_tables(db_id))
ListTablesResult(resp) == IF IsOk(resp) THEN resp.tables ELSE 0

\* Variant: an empty table list passes the check.
TablesDiscoveredOrEmpty(n) == n >= 0

\* "if tables: ... else: sys.exit(1)"
TablesDiscovered(n) == n > 0

ListTables(resp) ==
    /\ pc = "metadata"
    /\ AuthRequest("metadata")
    /\ tables' = ListTablesResult(resp)
    /\ IF TablesDiscovered(tables')
       THEN /\ pc' = "battery"
            /\ allPassed' = TRUE
            /\ UNCHANGED exitCode
       ELSE /\ Exit(1)
            /\ UNCHANGED allPassed
    /\ UNCHANGED <<skipWait, dbId, ddlPassed, summaryPrinted, waitVars,
                   authVars, histVars, uncaught>>

----------------------------------------------------------------------------
\* run_query, lines 212-227, and the battery of main, lines 382-520.

\* The statements are numbered in the order main runs them:
\* test_queries, ddl_tests, catalog_queries, streaming_test_query.
Group(i) ==
    IF i <= NumBounded THEN "bounded"
    ELSE IF i <= NumBounded + NumDdl THEN "ddl"
    ELSE IF i <= NumBounded + NumDdl + NumCatalog THEN "catalog"
    ELSE "streaming"

\* result.get("status") of what run_query returns: the decoded body, or
\* {"error": str(e)}, which has no status, when the request raised.
RunQuery(resp) == IF resp.kind = "exception" THEN None ELSE Some(resp.status)

\* result.get("status") == "completed"
Completed(status) == status = Some("completed")

\* The statement the loops of main are at.
Current == Len(issued) + 1

\* The request of one statement and the history it leaves.
Statement(resp) ==
    /\ pc = "battery"
    /\ AuthRequest("dataset")
    /\ issued' = Append(issued, Current)
    /\ notCompleted' = IF Completed(RunQuery(resp))
                       THEN notCompleted
                       ELSE notCompleted \cup {Group(Current)}

\* One iteration of the loop at lines 383-396; "ddl_passed = True" at line
\* 429 follows the last iteration.
RunBoundedQuery(resp) ==
    /\ Group(Current) = "bounded"
    /\ Statement(resp)
    /\ allPassed' = IF Completed(RunQuery(resp)) THEN allPassed ELSE FALSE
    /\ ddlPassed' = IF Current = NumBounded THEN TRUE ELSE ddlPassed
    /\ pc' = "battery"
    /\ UNCHANGED <<skipWait, dbId, tables, summaryPrinted, waitVars, authVars,
                   regResp, syncReturn, exitCode, uncaught>>

\* Variant: the first DDL statement that fails ends the run.
RunDdlOrAbort(resp) ==
    /\ Group(Current) = "ddl"
    /\ Statement(resp)
    /\ ddlPassed' = IF Completed(RunQuery(resp)) THEN ddlPassed ELSE FALSE
    /\ allPassed' = IF ~ddlPassed' THEN FALSE ELSE allPassed
    /\ IF ddlPassed' THEN pc' = "battery" /\ UNCHANGED exitCode ELSE Exit(1)
    /\ UNCHANGED <<skipWait, dbId, tables, summaryPrinted, waitVars, authVars,
                   regResp, syncReturn, uncaught>>

\* One iteration of the loop at lines 430-441; lines 443-445 follow the
\* last iteration.
RunDdl(resp) ==
    /\ Group(Current) = "ddl"
    /\ Statement(resp)
    /\ ddlPassed' = IF Completed(RunQuery(resp)) THEN ddlPassed ELSE FALSE
    /\ allPassed' = IF Current = NumBounded + NumDdl /\ ~ddlPassed'
                    THEN FALSE
                    ELSE allPassed
    /\ pc' = "battery"
    /\ UNCHANGED <<skipWait, dbId, tables, summaryPrinted, waitVars, authVars,
                   regResp, syncReturn, exitCode, uncaught>>

\* One iteration of the loop at lines 461-474: the outcome is only printed.
RunCatalogQuery(resp) ==
    /\ Group(Current) = "catalog"
    /\ Statement(resp)
    /\ pc' = "battery"
    /\ UNCHANGED <<mainVars, waitVars, authVars, regResp, syncReturn,
                   exitCode, uncaught>>

\* all_passed after the streaming probe, lines 501-520: a completed probe
\* assigns True, a failed one leaves the flag alone.
AfterStreaming(passed, status) == IF Completed(status) THEN TRUE ELSE passed

\* The streaming probe, lines 492-520, then the summary and the end of
\* main, lines 544-575: sys.exit(1) unless all_passed, else status 0.
RunStreamingQuery(resp) ==
    /\ Group(Current) = "streaming"
    /\ Current <= NumStatements
    /\ Statement(resp)
    /\ allPassed' = AfterStreaming(allPassed, RunQuery(resp))
    /\ summaryPrinted' = TRUE
    /\ Exit(IF allPassed' THEN 0 ELSE 1)
    /\ UNCHANGED <<skipWait, dbId, tables, ddlPassed, waitVars, authVars,
                   regResp, syncReturn, uncaught>>

----------------------------------------------------------------------------
Next ==
    \/ \E resp \in HealthResponses, d \in Interval..(Interval + MaxDelay) :
         HealthPoll(resp, d)
    \/ WaitTimeout
    \/ \E props \in PropertiesResponses : CheckSetupStatus(props)
    \/ \E resp \in AuthResponses : CompleteSetup(resp)
    \/ \E resp \in AuthResponses : Login(resp)
    \/ \E resp \in DatabaseResponses : AddFlinkDatabase(resp)
    \/ \E resp \in SyncResponses : SyncDatabase(resp)
    \/ \E resp \in MetadataResponses : ListTables(resp)
    \/ \E resp \in DatasetResponses : RunBoundedQuery(resp)
    \/ \E resp \in DatasetResponses : RunDdl(resp)
    \/ \E resp \in DatasetResponses : RunCatalogQuery(resp)
    \/ \E resp \in DatasetResponses : RunStreamingQuery(resp)

Spec == Init /\ [][Next]_vars

TypeOK ==
    /\ pc \in {"wait", "auth", "setup", "login", "register", "sync",
               "metadata", "battery", "exited"}
    /\ exitCode \in {None, Some(0), Some(1)}
    /\ sent \in [Endpoints -> Nat]

----------------------------------------------------------------------------
\* Properties.

Exited(code) == pc = "exited" /\ exitCode = Some(code)

\* No request of stage n or later has been issued.
NothingFrom(n) == \A e \in Endpoints : Stage(e) >= n => sent[e] = 0

AllGroups == {"bounded", "ddl", "catalog", "streaming"}

\* C1: a run that went through the battery exits with status 1 exactly
\* when some statement of the battery (bounded, DDL, catalog, streaming)
\* did not complete, and with status 0 only when all of them completed.
C1_ExitReflectsEveryStatement ==
    (pc = "exited" /\ summaryPrinted) =>
        /\ notCompleted # {} => exitCode = Some(1)
        /\ exitCode = Some(0) => notCompleted = {}

\* C2: a failed setup-critical step (readiness timeout, admin bootstrap,
\* registration without a usable id, empty table list) ends the run at
\* once with status 1, and no request of a later step is ever issued.
C2_CriticalFailureStopsRun ==
    /\ waitReturn = Some(FALSE) => Exited(1) /\ NothingFrom(2)
    /\ (authReturn = Some(FALSE) \/ uncaught) => Exited(1) /\ NothingFrom(4)
    /\ (regResp # None /\ ~TruthyInt(dbId)) => Exited(1) /\ NothingFrom(5)
    /\ (sent["metadata"] > 0 /\ tables = 0) => Exited(1) /\ NothingFrom(7)

\* C2 witness: the metadata response listed no table and the run is over.
C2_Witness ==
    /\ pc = "exited"
    /\ sent["metadata"] = 1
    /\ tables = 0
    /\ syncReturn = Some(TRUE)

\* C3: once a table has been discovered, the run issues the 23 statements
\* of the battery, each once and in the listed order, whatever the outcome
\* of the earlier ones, and reaches the summary.
C3_WholeBatteryRuns ==
    /\ issued = [i \in 1..Len(issued) |-> i]
    /\ sent["dataset"] = Len(issued)
    /\ Len(issued) <= NumStatements
    /\ (pc = "battery") => exitCode = None /\ Len(issued) < NumStatements
    /\ (pc = "exited" /\ sent["metadata"] > 0 /\ tables > 0) =>
            /\ Len(issued) = NumStatements
            /\ summaryPrinted
    /\ Len(issued) > 0 => tables > 0

\* C3 witness: every group had a failing statement and the run still got
\* to the summary.
C3_Witness ==
    /\ pc = "exited"
    /\ summaryPrinted
    /\ notCompleted = AllGroups
    /\ Len(issued) = NumStatements

\* setup_admin_user has been called and is over.
AdminCallOver == sent["properties"] > 0 /\ pc \notin {"auth", "setup", "login"}

\* C4: every call of setup_admin_user runs exactly one of the two paths:
\* POST /api/setup alone when the setup token is non-empty, POST
\* /api/session alone otherwise; it returns False whenever the request of
\* the path did not answer 200.
C4_ExactlyOnePath ==
    AdminCallOver =>
        /\ sent["setup"] + sent["session"] = 1
        /\ setupToken # None
        /\ IF TruthyStr(setupToken[1])
           THEN sent["setup"] = 1 /\ sent["session"] = 0
           ELSE sent["setup"] = 0 /\ sent["session"] = 1
        /\ ~IsOk(authResp[1]) => authReturn = Some(FALSE)

\* C5: a transport exception or non-success status of any HTTP call is
\* caught inside the operation; no run ends with an uncaught exception.
C5_NoUncaughtException == ~uncaught

\* The most polls a clock that moves by at least Interval per iteration
\* allows before the timeout.
MaxPolls == (Timeout + Interval - 1) \div Interval

\* The poll answered with HTTP 200 and a body whose status is "ok".
AnsweredOk(poll) ==
    /\ poll # None
    /\ poll[1].kind = "http"
    /\ poll[1].code = 200
    /\ poll[1].status = "ok"

C6_State ==
    /\ waitReturn = Some(TRUE) => AnsweredOk(lastPoll)
    /\ waitReturn = Some(FALSE) => elapsed >= Timeout
    /\ (pc = "wait" /\ elapsed < Timeout) => waitReturn = None
    /\ sent["health"] <= MaxPolls

C6_Step ==
    /\ sent'["health"] > sent["health"] => elapsed < Timeout
    /\ (pc = "wait" /\ pc' # "wait") =>
            \/ waitReturn' = Some(TRUE) /\ AnsweredOk(lastPoll')
            \/ waitReturn' = Some(FALSE) /\ elapsed >= Timeout

\* C6: wait_for_metabase returns True only after a poll answered 200 with
\* status "ok"; otherwise it returns False once the elapsed time has
\* reached the timeout, after at most MaxPolls polls and with no poll
\* issued at or past the timeout; a failed poll never ends the loop early.
C6_ReadinessPolling == []C6_State /\ [][C6_Step]_vars

\* C6 witness: MaxPolls failed polls, then the timeout.
C6_Witness ==
    /\ waitReturn = Some(FALSE)
    /\ sent["health"] = MaxPolls
    /\ pc = "exited"

\* C7: add_flink_database yields an id only from a 200 response, yields
\* None for a non-200 response or a transport error, leaves the session
\* token as authentication wrote it, and main goes on past registration
\* only with an id that is present and non-zero.
C7_RegistrationYieldsId ==
    regResp # None =>
        /\ dbId # None => IsOk(regResp[1]) /\ dbId = regResp[1].id
        /\ ~IsOk(regResp[1]) => dbId = None
        /\ sessionToken = authWrote[1]
        /\ (pc # "exited" \/ ~NothingFrom(5)) <=> (dbId # None /\ dbId[1] # 0)

\* C7 witness: a 200 response carrying the id 0 ended the run.
C7_Witness ==
    /\ regResp # None
    /\ IsOk(regResp[1])
    /\ dbId = Some(0)
    /\ Exited(1)
    /\ NothingFrom(5)

Once == {"properties", "setup", "session", "database", "sync", "metadata"}

C8_State ==
    /\ \A e \in Once : sent[e] <= 1
    /\ sent["setup"] + sent["session"] <= 1
    /\ skipWait => sent["health"] = 0
    /\ \A e, f \in Endpoints :
          (Stage(e) < Stage(f) /\ sent[f] > 0 /\ e \notin {"health", "setup", "session"})
            => sent[e] > 0
    /\ ~NothingFrom(4) => sent["setup"] + sent["session"] = 1

C8_Step ==
    \A e \in Endpoints :
        sent'[e] > sent[e] =>
            \A f \in Endpoints : Stage(f) > Stage(e) => sent'[f] = 0

\* C8: requests follow the stage order health, properties, setup or
\* login, database, sync, metadata, dataset: a request is never issued
\* once a later stage has issued one, no stage is skipped, --skip-wait
\* leaves out the health polls, and every setup request other than the
\* polls is issued at most once.
C8_LinearStages == []C8_State /\ [][C8_Step]_vars

\* C8 witness: a run with several health polls that went through every
\* stage after a failed sync.
C8_Witness ==
    /\ pc = "exited"
    /\ summaryPrinted
    /\ sent["health"] > 1
    /\ syncReturn = Some(FALSE)
    /\ sent["dataset"] = NumStatements

C10_SyncBestEffort ==
    /\ pc = "sync" => sent["sync"] = 0 /\ TruthyInt(dbId)
    /\ pc = "metadata" =>
            /\ sent["sync"] = 1 /\ sent["metadata"] = 0
            /\ syncReturn # None /\ exitCode = None
    /\ (regResp # None /\ TruthyInt(dbId) /\ pc \notin {"sync", "metadata"}) =>
            /\ sent["sync"] = 1 /\ sent["metadata"] = 1
            /\ syncReturn # None
    /\ (pc = "exited" /\ sent["sync"] > 0) =>
            exitCode = Some(IF TablesDiscovered(tables) /\ allPassed THEN 0 ELSE 1)

\* C10 witness: the sync failed and the run ended with status 0.
C10_Witness ==
    /\ Exited(0)
    /\ syncReturn = Some(FALSE)
    /\ sent["sync"] = 1
    /\ sent["metadata"] = 1

\* C11: whenever an authenticated request has been issued, the
\* authentication step returned True and the session token is a non-null
\* value that the request carried; setup_admin_user returning True implies
\* that session_token is set, whatever the 200 body of setup/login was.
C11_AuthenticatedImpliesToken ==
    /\ (\E e \in Authenticated : sent[e] > 0) =>
            /\ authReturn = Some(TRUE)
            /\ sessionToken # None
            /\ None \notin headers
    /\ authReturn = Some(TRUE) => sessionToken # None

====
